---- MODULE Spec2Model ----
(***************************************************************************)
(* Model of the service control endpoint (tequilapi/endpoints/service.go), *)
(* the session history record (session.History), and the mobile openvpn    *)
(* connection setup (mobile/mysterium/openvpn_connection_setup.go):        *)
(* the event adapter, the session tracker and the connection factory.      *)
(***************************************************************************)
EXTENDS Integers, Sequences, FiniteSets, TLC

\* ------------------------------------------------------------------ bounds
\* Number of service ids the registry hands out in one run.
MaxInstances == 2
\* Number of sessions the connection factory constructs in one run.
MaxSessions == 2
\* Number of events the engine delivers to the adapters in one run.
MaxEvents == 3
\* Capacity of a connection's state channel (made by the connection manager).
ChanCap == 2
\* Number of calls in one sequence of calls on the session tracker.
MaxCalls == 5
\* Number of service ids the mobile node's registry hands out in one run.
MaxServices == 3
\* The clock's last tick, and the ticks in one second.
MaxTime == 5
TicksPerSecond == 2

\* ------------------------------------------------------- service endpoint
VARIABLES instances, nextId, task

svcVars == <<instances, nextId, task>>

\* -------------------------------------------------------- session history
VARIABLES now, hist, duration

histVars == <<now, hist, duration>>

\* ------------------------------------------- mobile openvpn connection setup
VARIABLES session, mux, created, factory, reconnect, bus, stateChannel,
          closed, chanLog, nEvents, events, ended, panic, log

mobVars == <<session, mux, created, factory, reconnect, bus, stateChannel,
             closed, chanLog, nEvents, events, ended, panic, log>>

\* ------------------------------------------------- mobile provider mode
VARIABLES services, nextService, prov

provVars == <<services, nextService, prov>>

vars == <<svcVars, histVars, mobVars, provVars>>

Providers == {"0xabc", "0xdef"}
\* Service types the registry knows.
ServiceTypes == {"wireguard", "openvpn"}
\* Keys of ServiceEndpoint.optionsParser.
optionsParser == {"wireguard"}
\* HTTP requests served at the same time (one goroutine each).
Handlers == {"h1", "h2"}
\* The handler that serves requests one after the other.
Serial == {"h1"}

IDs == 1..MaxInstances
NoInstance == [ProviderID |-> "", ServiceType |-> "", State |-> "none"]
NoReq == [body |-> "none", providerId |-> "", serviceType |-> "", options |-> "absent"]

\* A POST /services body: malformed JSON, or an object whose providerId and
\* serviceType may be empty and whose options are absent, parsable or not.
StartRequests ==
    {[body |-> "malformed", providerId |-> "", serviceType |-> "", options |-> "absent"]}
    \cup [body : {"json"}, providerId : Providers \cup {""},
          serviceType : ServiceTypes \cup {""},
          options : {"absent", "valid", "invalid"}]

IdleTask == [op |-> "none", pc |-> "idle", req |-> NoReq, id |-> 0, status |-> 0,
             fields |-> {}, err |-> "nil", nStart |-> 0, nStop |-> 0, info |-> "none"]

\* ServiceManager.List(): the ids that hold an instance.
List(insts) == {i \in DOMAIN insts : insts[i] # NoInstance}

\* ServiceManager.Service(id): the instance, or NoInstance (nil).
Service(insts, id) == IF id \in DOMAIN insts THEN insts[id] ELSE NoInstance

toServiceRequest(req) ==
    IF req.body = "malformed"
    THEN [err |-> "decode", ProviderID |-> "", ServiceType |-> "", Options |-> "nil"]
    ELSE IF req.options # "absent" /\ req.serviceType \notin optionsParser
    THEN [err |-> "Invalid service type", ProviderID |-> req.providerId,
          ServiceType |-> req.serviceType, Options |-> "nil"]
    ELSE IF req.options = "invalid"
    THEN [err |-> "Invalid options", ProviderID |-> req.providerId,
          ServiceType |-> req.serviceType, Options |-> "nil"]
    ELSE [err |-> "nil", ProviderID |-> req.providerId,
          ServiceType |-> req.serviceType,
          Options |-> IF req.options = "absent" THEN "nil" ELSE "parsed"]

validateServiceRequest(sr) ==
    (IF sr.ProviderID = "" THEN {"providerId"} ELSE {})
    \cup (IF sr.ServiceType = "" THEN {"serviceType"} ELSE {})

\* A plausible slip: the service type alone decides, whoever the provider.
isAlreadyRunningAnyProvider(sr, insts) ==
    \E i \in List(insts) : insts[i].ServiceType = sr.ServiceType

\* A plausible slip: only instances in the Running state count as running.
isAlreadyRunningOnlyRunning(sr, insts) ==
    \E i \in List(insts) :
        /\ insts[i].ProviderID = sr.ProviderID
        /\ insts[i].ServiceType = sr.ServiceType
        /\ insts[i].State = "Running"

isAlreadyRunning(sr, insts) ==
    \E i \in List(insts) :
        /\ insts[i].ProviderID = sr.ProviderID
        /\ insts[i].ServiceType = sr.ServiceType

\* A plausible slip: the return after the validation error is missing, so
\* the handler writes 422 and goes on to the registry.
ServiceStartCheckNoReturn(req, insts) ==
    LET sr == toServiceRequest(req) IN
    IF sr.err # "nil" THEN [pc |-> "done", status |-> 400, fields |-> {}]
    ELSE IF isAlreadyRunning(sr, insts)
    THEN [pc |-> "done", status |-> 409, fields |-> {}]
    ELSE [pc |-> "start",
          status |-> IF validateServiceRequest(sr) # {} THEN 422 ELSE 0,
          fields |-> validateServiceRequest(sr)]

\* ServiceStart up to and including the duplicate check: the response it
\* writes, or "start" when the request goes on to the registry.
ServiceStartCheck(req, insts) ==
    LET sr == toServiceRequest(req) IN
    IF sr.err # "nil" THEN [pc |-> "done", status |-> 400, fields |-> {}]
    ELSE IF validateServiceRequest(sr) # {}
    THEN [pc |-> "done", status |-> 422, fields |-> validateServiceRequest(sr)]
    ELSE IF isAlreadyRunning(sr, insts)
    THEN [pc |-> "done", status |-> 409, fields |-> {}]
    ELSE [pc |-> "start", status |-> 0, fields |-> {}]

ServiceStartBegin(h, req) ==
    /\ task[h].pc \in {"idle", "done"}
    /\ LET c == ServiceStartCheck(req, instances) IN
       task' = [task EXCEPT ![h] = [IdleTask EXCEPT !.op = "ServiceStart",
                    !.req = req,
                    !.pc = c.pc, !.status = c.status, !.fields = c.fields]]
    /\ UNCHANGED <<instances, nextId, histVars, mobVars, provVars>>

\* The status ServiceStart maps a registry error to.
StartErrorStatus(err) == IF err = "ErrorLocation" THEN 400 ELSE 500

\* serviceManager.Start fails: the location error or any other error.
ServiceStartFail(h, err) ==
    /\ task[h].pc = "start"
    /\ task' = [task EXCEPT ![h].pc = "done", ![h].err = err,
                            ![h].nStart = task[h].nStart + 1,
                            ![h].status = StartErrorStatus(err)]
    /\ UNCHANGED <<instances, nextId, histVars, mobVars, provVars>>

\* serviceManager.Start succeeds: the registry holds a new instance whose
\* proposal carries the request's provider and service type.
ServiceStartOk(h) ==
    /\ task[h].pc = "start"
    /\ nextId \in IDs
    /\ instances' = [instances EXCEPT ![nextId] =
                        [ProviderID |-> task[h].req.providerId,
                         ServiceType |-> task[h].req.serviceType,
                         State |-> "Starting"]]
    /\ nextId' = nextId + 1
    /\ task' = [task EXCEPT ![h].pc = "lookup", ![h].id = nextId,
                            ![h].nStart = task[h].nStart + 1]
    /\ UNCHANGED <<histVars, mobVars, provVars>>

\* toServiceInfoResponse dereferences the instance: a nil instance panics.
toServiceInfoResponse(id, instance) ==
    IF instance = NoInstance THEN "panic" ELSE instance.State

\* instance := Service(id); WriteHeader(201); write the service info.
ServiceStartRespond(h) ==
    /\ task[h].pc = "lookup"
    /\ task' = [task EXCEPT ![h].pc = "done", ![h].status = 201,
                   ![h].info = toServiceInfoResponse(task[h].id,
                                   Service(instances, task[h].id))]
    /\ UNCHANGED <<instances, nextId, histVars, mobVars, provVars>>

\* A plausible slip: the nil check on the looked-up service is missing.
ServiceStopLookupNoCheck(id, insts) == "stop"

\* ServiceStop up to the nil check: 404, or go on to the registry's Stop.
ServiceStopLookup(id, insts) ==
    IF Service(insts, id) = NoInstance THEN "notfound" ELSE "stop"

ServiceStopBegin(h, id) ==
    /\ task[h].pc \in {"idle", "done"}
    /\ task' = [task EXCEPT ![h] =
                  IF ServiceStopLookup(id, instances) = "notfound"
                  THEN [IdleTask EXCEPT !.op = "ServiceStop", !.id = id,
                                        !.pc = "done", !.status = 404]
                  ELSE [IdleTask EXCEPT !.op = "ServiceStop", !.id = id,
                                        !.pc = "stop"]]
    /\ UNCHANGED <<instances, nextId, histVars, mobVars, provVars>>

\* The status ServiceStop answers for the result of the registry's Stop.
StopStatus(err) == IF err # "nil" THEN 500 ELSE 202

\* serviceManager.Stop(id) returns an error: nothing is stopped.
ServiceStopFail(h) ==
    /\ task[h].pc = "stop"
    /\ task' = [task EXCEPT ![h].pc = "done", ![h].err = "error",
                            ![h].nStop = task[h].nStop + 1,
                            ![h].status = StopStatus("error")]
    /\ UNCHANGED <<instances, nextId, histVars, mobVars, provVars>>

\* serviceManager.Stop(id) returns nil: the instance is gone at once
\* (gone = TRUE) or is left listed as NotRunning until its teardown ends.
ServiceStopOk(h, gone) ==
    /\ task[h].pc = "stop"
    /\ Service(instances, task[h].id) # NoInstance
    /\ instances' = [instances EXCEPT ![task[h].id] =
                        IF gone THEN NoInstance
                        ELSE [instances[task[h].id] EXCEPT !.State = "NotRunning"]]
    /\ task' = [task EXCEPT ![h].pc = "done", ![h].err = "nil",
                            ![h].nStop = task[h].nStop + 1,
                            ![h].status = StopStatus("nil")]
    /\ UNCHANGED <<nextId, histVars, mobVars, provVars>>

\* The registry's own progress: a starting instance comes up.
RegistryRun(i) ==
    /\ instances[i] # NoInstance
    /\ instances[i].State = "Starting"
    /\ instances' = [instances EXCEPT ![i].State = "Running"]
    /\ UNCHANGED <<nextId, task, histVars, mobVars, provVars>>

\* The registry's own progress: the teardown of a stopped instance ends.
RegistryTeardown(i) ==
    /\ instances[i] # NoInstance
    /\ instances[i].State = "NotRunning"
    /\ instances' = [instances EXCEPT ![i] = NoInstance]
    /\ UNCHANGED <<nextId, task, histVars, mobVars, provVars>>


\* -------------------------------------------------------- session history
\* Times are clock ticks, TicksPerSecond to the second; the zero time.Time
\* (the Updated of a record not yet completed) is tick 0, before any "now".
HistoryIDs == {"sess1", "sess2"}
NoHistory == [Started |-> 0, Status |-> "none", Updated |-> 0]
SessionStatusNew == "New"
SessionStatusCompleted == "Completed"

\* NewHistory(sessionID, proposal): Started is the clock, Status is New.
NewHistory(t) == [Started |-> t, Status |-> SessionStatusNew, Updated |-> 0]

\* time.Time.Sub: the difference as a Duration (here in ticks).
Sub(u, t) == u - t

\* Integer division as Go does it: truncated towards zero.
TruncDiv(a, b) == IF a >= 0 THEN a \div b ELSE -((-a) \div b)

\* Duration.Seconds: the whole seconds and the remaining ticks, which the
\* code adds up as a float64.
Seconds(d) == [sec |-> TruncDiv(d, TicksPerSecond),
               frac |-> d - TicksPerSecond * TruncDiv(d, TicksPerSecond)]

\* uint64(float64): the fraction is discarded.
Uint64(f) == f.sec

\* A plausible slip: the status check is missing.
GetDurationNoStatusCheck(se) == Uint64(Seconds(Sub(se.Updated, se.Started)))

\* A plausible slip: the Duration itself is returned, not its seconds.
GetDurationNoSeconds(se) ==
    IF se.Status = SessionStatusCompleted
    THEN Sub(se.Updated, se.Started)
    ELSE 0

GetDuration(se) ==
    IF se.Status = SessionStatusCompleted
    THEN Uint64(Seconds(Sub(se.Updated, se.Started)))
    ELSE 0

\* The wall clock moves on; it does not step back.
Tick ==
    /\ now < MaxTime
    /\ now' = now + 1
    /\ UNCHANGED <<hist, duration, svcVars, mobVars, provVars>>

\* A session begins: its record is created.
CreateHistory(sid) ==
    /\ hist[sid] = NoHistory
    /\ hist' = [hist EXCEPT ![sid] = NewHistory(now)]
    /\ UNCHANGED <<now, duration, svcVars, mobVars, provVars>>

\* A session ends: its record is completed at the current time.
CompleteHistory(sid) ==
    /\ hist[sid].Status = SessionStatusNew
    /\ hist' = [hist EXCEPT ![sid] = [hist[sid] EXCEPT
                    !.Status = SessionStatusCompleted, !.Updated = now]]
    /\ UNCHANGED <<now, duration, svcVars, mobVars, provVars>>

\* GetDuration is called on a record.
GetDurationCall(sid) ==
    /\ hist[sid] # NoHistory
    /\ duration' = [rec |-> hist[sid], d |-> GetDuration(hist[sid])]
    /\ UNCHANGED <<now, hist, svcVars, mobVars, provVars>>

HistInit ==
    /\ now = 1
    /\ hist = [sid \in HistoryIDs |-> NoHistory]
    /\ duration = [rec |-> NoHistory, d |-> 0]

HistNext ==
    \/ Tick
    \/ \E sid \in HistoryIDs : CreateHistory(sid)
    \/ \E sid \in HistoryIDs : CompleteHistory(sid)
    \/ \E sid \in HistoryIDs : GetDurationCall(sid)

\* ------------------------------------------- mobile openvpn connection setup
Sessions == 1..MaxSessions
\* The nil *openvpn3.Session.
NoSession == 0
\* connection.State values.
States == {"Connecting", "Connected", "Disconnecting", "NotConnected"}
\* Names of the engine's events; "RECONNECTING" stands for every name the
\* adapter does not handle.
EventNames == {"CONNECTING", "CONNECTED", "DISCONNECTED", "RECONNECTING"}

Last(q) == q[Len(q)]

\* The process is alive: a panic in a callback goroutine ends it.
Alive == panic = "none"

\* --- channelToCallbacksAdapter.OnEvent
\* A plausible slip: the CONNECTED case sends the state of the case above.
OnEventOpsCopied(name) ==
    CASE name = "CONNECTING" -> <<"Connecting">>
      [] name = "CONNECTED" -> <<"Connecting">>
      [] name = "DISCONNECTED" -> <<"NotConnected", "close">>
      [] OTHER -> <<>>

\* The sends and the close OnEvent executes for an event, in order.
OnEventOps(name) ==
    CASE name = "CONNECTING" -> <<"Connecting">>
      [] name = "CONNECTED" -> <<"Connected">>
      [] name = "DISCONNECTED" -> <<"NotConnected", "close">>
      [] OTHER -> <<>>

\* OnEvent(event) of session s's adapter. A send on the closed channel
\* panics; a send on a full channel blocks the call (the action waits).
OnEvent(s, name) ==
    /\ Alive
    /\ s <= created
    /\ ~(factory.pc # "idle" /\ factory.s = s)
    /\ nEvents < MaxEvents
    /\ nEvents' = nEvents + 1
    /\ events' = [events EXCEPT ![s] = Append(events[s], name)]
    /\ LET ops == OnEventOps(name) IN
       IF ops = <<>>
       THEN UNCHANGED <<stateChannel, closed, chanLog, panic>>
       ELSE IF closed[s]
       THEN /\ panic' = "send on closed channel"
            /\ chanLog' = [chanLog EXCEPT ![s] = Append(chanLog[s], ops[1])]
            /\ UNCHANGED <<stateChannel, closed>>
       ELSE /\ Len(stateChannel[s]) < ChanCap
            /\ stateChannel' = [stateChannel EXCEPT ![s] = Append(stateChannel[s], ops[1])]
            /\ chanLog' = [chanLog EXCEPT ![s] = chanLog[s] \o ops]
            /\ closed' = [closed EXCEPT ![s] = (Len(ops) = 2)]
            /\ UNCHANGED panic
    /\ UNCHANGED <<session, mux, created, factory, reconnect, bus, ended, log,
                   svcVars, histVars, provVars>>

\* --- sessionTracker
\* A plausible slip: sessionCreated does not store the session.
sessionCreatedNoStore(sess, s) == sess

\* sessionCreated(s): the handle after the call.
sessionCreated(sess, s) == s

\* A plausible slip: the handle is cleared on NotConnected, not Disconnecting.
handleStateOnNotConnected(sess, state) ==
    IF state = "NotConnected" THEN NoSession ELSE sess

\* A plausible slip: the handle is cleared on every state but Connected.
handleStateUnlessConnected(sess, state) ==
    IF state # "Connected" THEN NoSession ELSE sess

\* handleState(stateEvent): the handle after the call.
handleState(sess, state) ==
    IF state = "Disconnecting" THEN NoSession ELSE sess

\* Reconnect's nil check.
ReconnectNil(sess) == sess = NoSession

\* The connection factory fails before a session exists (configuration
\* derivation or credential signing).
FactoryFail(err) ==
    /\ Alive
    /\ factory.pc = "idle"
    /\ factory' = [pc |-> "idle", s |-> NoSession, result |-> err]
    /\ UNCHANGED <<session, mux, created, reconnect, bus, stateChannel, closed,
                   chanLog, nEvents, events, ended, panic, log, svcVars, histVars, provVars>>

\* The factory constructs session created+1 and sessionCreated takes the lock.
FactoryLock ==
    /\ Alive
    /\ factory.pc = "idle"
    /\ created < MaxSessions
    /\ mux = "free"
    /\ created' = created + 1
    /\ mux' = "factory"
    /\ factory' = [pc |-> "locked", s |-> created + 1, result |-> "none"]
    /\ UNCHANGED <<session, reconnect, bus, stateChannel, closed, chanLog,
                   nEvents, events, ended, panic, log, svcVars, histVars, provVars>>

\* sessionCreated writes the handle.
FactoryWrite ==
    /\ Alive
    /\ factory.pc = "locked"
    /\ session' = sessionCreated(session, factory.s)
    /\ factory' = [factory EXCEPT !.pc = "written"]
    /\ UNCHANGED <<mux, created, reconnect, bus, stateChannel, closed, chanLog,
                   nEvents, events, ended, panic, log, svcVars, histVars, provVars>>

\* sessionCreated unlocks; the factory returns the session wrapper.
FactoryUnlock ==
    /\ Alive
    /\ factory.pc = "written"
    /\ mux' = "free"
    /\ factory' = [factory EXCEPT !.pc = "idle", !.result = "ok"]
    /\ UNCHANGED <<session, created, reconnect, bus, stateChannel, closed,
                   chanLog, nEvents, events, ended, panic, log, svcVars, histVars, provVars>>

\* Reconnect is called.
ReconnectCall ==
    /\ Alive
    /\ reconnect.pc = "idle"
    /\ reconnect' = [pc |-> "check", result |-> "none", target |-> NoSession]
    /\ UNCHANGED <<session, mux, created, factory, bus, stateChannel, closed,
                   chanLog, nEvents, events, ended, panic, log, svcVars, histVars, provVars>>

\* Reconnect reads the handle for its nil check.
ReconnectCheck ==
    /\ Alive
    /\ reconnect.pc = "check"
    /\ reconnect' = IF ReconnectNil(session)
                    THEN [reconnect EXCEPT !.pc = "idle", !.result = "noSession"]
                    ELSE [reconnect EXCEPT !.pc = "use"]
    /\ UNCHANGED <<session, mux, created, factory, bus, stateChannel, closed,
                   chanLog, nEvents, events, ended, panic, log, svcVars, histVars, provVars>>

\* Reconnect reads the handle again and calls the session's Reconnect, which
\* answers native; on a handle cleared since the check the call panics.
ReconnectUse(native) ==
    /\ Alive
    /\ reconnect.pc = "use"
    /\ IF session = NoSession
       THEN /\ panic' = "nil session"
            /\ reconnect' = [reconnect EXCEPT !.pc = "idle"]
       ELSE /\ reconnect' = [pc |-> "idle", result |-> native, target |-> session]
            /\ UNCHANGED panic
    /\ UNCHANGED <<session, mux, created, factory, bus, stateChannel, closed,
                   chanLog, nEvents, events, ended, log, svcVars, histVars, provVars>>

\* The connection manager receives a state from session s's channel and
\* publishes it on the event bus, which calls handleState.
ManagerReceive(s) ==
    /\ Alive
    /\ bus.pc = "idle"
    /\ stateChannel[s] # <<>>
    /\ stateChannel' = [stateChannel EXCEPT ![s] = Tail(stateChannel[s])]
    /\ bus' = [pc |-> "handle", state |-> Head(stateChannel[s]), s |-> s]
    /\ UNCHANGED <<session, mux, created, factory, reconnect, closed, chanLog,
                   nEvents, events, ended, panic, log, svcVars, histVars, provVars>>

\* The connection manager is asked to disconnect connection s and publishes
\* Disconnecting before it stops the connection.
ManagerDisconnect(s) ==
    /\ Alive
    /\ bus.pc = "idle"
    /\ s <= created
    /\ ~(factory.pc # "idle" /\ factory.s = s)
    /\ s \notin ended
    /\ bus' = [pc |-> "handle", state |-> "Disconnecting", s |-> s]
    /\ UNCHANGED <<session, mux, created, factory, reconnect, stateChannel,
                   closed, chanLog, nEvents, events, ended, panic, log, svcVars, histVars, provVars>>

\* handleState runs for the published state event.
HandleState ==
    /\ Alive
    /\ bus.pc = "handle"
    /\ session' = handleState(session, bus.state)
    /\ ended' = IF bus.state = "NotConnected" THEN ended \cup {bus.s} ELSE ended
    /\ bus' = [bus EXCEPT !.pc = "idle"]
    /\ UNCHANGED <<mux, created, factory, reconnect, stateChannel, closed,
                   chanLog, nEvents, events, panic, log, svcVars, histVars, provVars>>

MobInit ==
    /\ session = NoSession
    /\ mux = "free"
    /\ created = 0
    /\ factory = [pc |-> "idle", s |-> NoSession, result |-> "none"]
    /\ reconnect = [pc |-> "idle", result |-> "none", target |-> NoSession]
    /\ bus = [pc |-> "idle", state |-> "NotConnected", s |-> NoSession]
    /\ stateChannel = [s \in Sessions |-> <<>>]
    /\ closed = [s \in Sessions |-> FALSE]
    /\ chanLog = [s \in Sessions |-> <<>>]
    /\ nEvents = 0
    /\ events = [s \in Sessions |-> <<>>]
    /\ ended = {}
    /\ panic = "none"
    /\ log = <<>>

MobNext ==
    \/ \E s \in Sessions, name \in EventNames : OnEvent(s, name)
    \/ \E err \in {"ConfigurationError", "CredentialError"} : FactoryFail(err)
    \/ FactoryLock
    \/ FactoryWrite
    \/ FactoryUnlock
    \/ ReconnectCall
    \/ ReconnectCheck
    \/ \E native \in {"ok", "engineError"} : ReconnectUse(native)
    \/ \E s \in Sessions : ManagerReceive(s)
    \/ \E s \in Sessions : ManagerDisconnect(s)
    \/ HandleState

\* --- the tracker's methods called one after the other
\* sessionCreated(s) is called with a newly constructed session.
CallSessionCreated ==
    /\ Len(log) < MaxCalls
    /\ created < MaxSessions
    /\ created' = created + 1
    /\ session' = sessionCreated(session, created + 1)
    /\ log' = Append(log, "sessionCreated")
    /\ UNCHANGED <<mux, factory, reconnect, bus, stateChannel, closed, chanLog,
                   nEvents, events, ended, panic, svcVars, histVars, provVars>>

\* handleState is called with a state event.
CallHandleState(state) ==
    /\ Len(log) < MaxCalls
    /\ session' = handleState(session, state)
    /\ log' = Append(log, state)
    /\ UNCHANGED <<mux, created, factory, reconnect, bus, stateChannel, closed,
                   chanLog, nEvents, events, ended, panic, svcVars, histVars, provVars>>

\* Reconnect is called; the session's own Reconnect would answer native.
CallReconnect(native) ==
    /\ Len(log) < MaxCalls
    /\ reconnect' = IF ReconnectNil(session)
                    THEN [pc |-> "idle", result |-> "noSession", target |-> NoSession]
                    ELSE [pc |-> "idle", result |-> native, target |-> session]
    /\ log' = Append(log, IF native = "ok" THEN "Reconnect:ok" ELSE "Reconnect:engineError")
    /\ UNCHANGED <<session, mux, created, factory, bus, stateChannel, closed,
                   chanLog, nEvents, events, ended, panic, svcVars, histVars, provVars>>

CallsNext ==
    \/ CallSessionCreated
    \/ \E state \in States : CallHandleState(state)
    \/ \E native \in {"ok", "engineError"} : CallReconnect(native)

\* ------------------------------------------------- mobile provider mode
\* Ids of the mobile node's registry (mb.servicesManager).
ServiceIDs == 1..MaxServices
\* What unlockIdentity returns: the identity's address, or "" on an error.
ProviderIDs == {"0xabc", ""}
\* strings.Split("wireguard,scraping,data_transfer", ",")
serviceTypes == <<"wireguard", "scraping", "data_transfer">>

\* The call of StartProvider or StopProvider in progress: the identity, the
\* index of the next service type, the services StopProvider still has to
\* visit, and the calls of the registry's Start and Stop made so far.
IdleProv == [op |-> "none", pc |-> "idle", providerID |-> "", i |-> 1,
             todo |-> <<>>, starts |-> <<>>, stops |-> <<>>, outcome |-> "none"]

\* The orders in which ranging over the slice List returns can visit ids.
Orders(ids) ==
    {q \in [1..Cardinality(ids) -> ids] :
        \A i, j \in 1..Cardinality(ids) : q[i] = q[j] => i = j}

\* StartProvider is called: unlockIdentity answers providerID.
StartProviderCall(providerID) ==
    /\ prov.pc \in {"idle", "returned"}
    /\ prov' = [IdleProv EXCEPT !.op = "StartProvider", !.pc = "loop",
                                !.providerID = providerID]
    /\ UNCHANGED <<services, nextService, svcVars, histVars, mobVars>>

\* services.GetStartOptions fails for the next service type: log and return.
StartProviderOptionsFail ==
    /\ prov.op = "StartProvider" /\ prov.pc = "loop"
    /\ prov' = [prov EXCEPT !.pc = "returned",
                            !.outcome = "GetStartOptions failed"]
    /\ UNCHANGED <<services, nextService, svcVars, histVars, mobVars>>

\* servicesManager.Start fails for the next service type: log and return.
StartProviderStartFail ==
    /\ prov.op = "StartProvider" /\ prov.pc = "loop"
    /\ prov' = [prov EXCEPT !.pc = "returned",
                   !.starts = Append(prov.starts,
                                [serviceType |-> serviceTypes[prov.i], ok |-> FALSE]),
                   !.outcome = "servicesManager.Start failed"]
    /\ UNCHANGED <<services, nextService, svcVars, histVars, mobVars>>

\* servicesManager.Start succeeds for the next service type: the registry
\* holds a new instance; the loop goes on, or ends after the last type.
StartProviderStartOk ==
    /\ prov.op = "StartProvider" /\ prov.pc = "loop"
    /\ nextService \in ServiceIDs
    /\ services' = [services EXCEPT ![nextService] =
                        [ProviderID |-> prov.providerID,
                         ServiceType |-> serviceTypes[prov.i],
                         State |-> "Starting"]]
    /\ nextService' = nextService + 1
    /\ prov' = [prov EXCEPT
                   !.starts = Append(prov.starts,
                                [serviceType |-> serviceTypes[prov.i], ok |-> TRUE]),
                   !.i = prov.i + 1,
                   !.pc = IF prov.i = Len(serviceTypes) THEN "returned" ELSE "loop",
                   !.outcome = IF prov.i = Len(serviceTypes) THEN "completed"
                               ELSE "none"]
    /\ UNCHANGED <<svcVars, histVars, mobVars>>

\* A plausible slip: only stopped services are skipped, so that services
\* still starting are stopped as well.
StopProviderSkipsStopped(state) == state = "NotRunning"

\* StopProvider skips a service: srv.State() != servicestate.Running.
StopProviderSkips(state) == state # "Running"

\* StopProvider is called: it ranges over servicesManager.List(true).
StopProviderCall(order) ==
    /\ prov.pc \in {"idle", "returned"}
    /\ prov' = [IdleProv EXCEPT !.op = "StopProvider", !.todo = order,
                   !.pc = IF order = <<>> THEN "returned" ELSE "loop",
                   !.outcome = IF order = <<>> THEN "completed" ELSE "none"]
    /\ UNCHANGED <<services, nextService, svcVars, histVars, mobVars>>

\* The loop goes on to the services in rest, or ends.
StopProviderNext(rest) ==
    [prov EXCEPT !.todo = rest,
                 !.pc = IF rest = <<>> THEN "returned" ELSE "loop",
                 !.outcome = IF rest = <<>> THEN "completed" ELSE "none"]

\* The service the loop is at is not running: continue.
StopProviderSkip ==
    /\ prov.op = "StopProvider" /\ prov.pc = "loop"
    /\ StopProviderSkips(services[Head(prov.todo)].State)
    /\ prov' = StopProviderNext(Tail(prov.todo))
    /\ UNCHANGED <<services, nextService, svcVars, histVars, mobVars>>

\* servicesManager.Stop fails for the service the loop is at: log and return.
StopProviderStopFail ==
    /\ prov.op = "StopProvider" /\ prov.pc = "loop"
    /\ ~StopProviderSkips(services[Head(prov.todo)].State)
    /\ prov' = [prov EXCEPT !.pc = "returned",
                   !.stops = Append(prov.stops, [id |-> Head(prov.todo), ok |-> FALSE]),
                   !.outcome = "servicesManager.Stop failed"]
    /\ UNCHANGED <<services, nextService, svcVars, histVars, mobVars>>

\* servicesManager.Stop succeeds for the service the loop is at: the instance
\* is gone at once or left listed as NotRunning until its teardown ends.
StopProviderStopOk(gone) ==
    /\ prov.op = "StopProvider" /\ prov.pc = "loop"
    /\ ~StopProviderSkips(services[Head(prov.todo)].State)
    /\ services' = [services EXCEPT ![Head(prov.todo)] =
                        IF gone THEN NoInstance
                        ELSE [services[Head(prov.todo)] EXCEPT !.State = "NotRunning"]]
    /\ prov' = [StopProviderNext(Tail(prov.todo)) EXCEPT
                   !.stops = Append(prov.stops, [id |-> Head(prov.todo), ok |-> TRUE])]
    /\ UNCHANGED <<nextService, svcVars, histVars, mobVars>>

\* The mobile node's registry makes progress: a starting service comes up.
ServiceRuns(i) ==
    /\ services[i] # NoInstance
    /\ services[i].State = "Starting"
    /\ services' = [services EXCEPT ![i].State = "Running"]
    /\ UNCHANGED <<nextService, prov, svcVars, histVars, mobVars>>

\* The mobile node's registry makes progress: a stopped service's teardown
\* ends.
ServiceTornDown(i) ==
    /\ services[i] # NoInstance
    /\ services[i].State = "NotRunning"
    /\ services' = [services EXCEPT ![i] = NoInstance]
    /\ UNCHANGED <<nextService, prov, svcVars, histVars, mobVars>>

ProvInit ==
    /\ services = [i \in ServiceIDs |-> NoInstance]
    /\ nextService = 1
    /\ prov = IdleProv

ProvNext ==
    \/ \E providerID \in ProviderIDs : StartProviderCall(providerID)
    \/ StartProviderOptionsFail
    \/ StartProviderStartFail
    \/ StartProviderStartOk
    \/ \E order \in Orders(List(services)) : StopProviderCall(order)
    \/ StopProviderSkip
    \/ StopProviderStopFail
    \/ \E gone \in BOOLEAN : StopProviderStopOk(gone)
    \/ \E i \in ServiceIDs : ServiceRuns(i)
    \/ \E i \in ServiceIDs : ServiceTornDown(i)

\* ---------------------------------------------------------- specifications
SvcInit ==
    /\ instances = [i \in IDs |-> NoInstance]
    /\ nextId = 1
    /\ task = [h \in Handlers |-> IdleTask]

Init == SvcInit /\ HistInit /\ MobInit /\ ProvInit

\* The steps of the handlers hs serving Start requests out of reqs, and of
\* the registry.
SvcStep(hs, reqs) ==
    \/ \E h \in hs, req \in reqs : ServiceStartBegin(h, req)
    \/ \E h \in hs, err \in {"ErrorLocation", "other"} : ServiceStartFail(h, err)
    \/ \E h \in hs : ServiceStartOk(h)
    \/ \E h \in hs : ServiceStartRespond(h)
    \/ \E h \in hs, id \in IDs \cup {0} : ServiceStopBegin(h, id)
    \/ \E h \in hs : ServiceStopFail(h)
    \/ \E h \in hs, gone \in BOOLEAN : ServiceStopOk(h, gone)
    \/ \E i \in IDs : RegistryRun(i)
    \/ \E i \in IDs : RegistryTeardown(i)

SvcNext == SvcStep(Serial, StartRequests)

\* Start requests without options that pass decoding and validation.
ValidRequests == {req \in StartRequests :
                    /\ req.options = "absent"
                    /\ toServiceRequest(req).err = "nil"
                    /\ validateServiceRequest(toServiceRequest(req)) = {}}

SvcConcurrentNext == SvcStep(Handlers, ValidRequests)

\* The HTTP endpoint serving requests one after the other while the registry
\* makes progress of its own.
SpecService == Init /\ [][SvcNext]_vars
\* The HTTP endpoint serving valid requests concurrently.
SpecServiceConcurrent == Init /\ [][SvcConcurrentNext]_vars
\* Session history records against the clock.
SpecHistory == Init /\ [][HistNext]_vars
\* The factory, the engine's callbacks, the connection manager and callers of
\* Reconnect running concurrently.
SpecMobile == Init /\ [][MobNext]_vars
\* The tracker's methods called one after the other.
SpecTrackerCalls == Init /\ [][CallsNext]_vars

\* The mobile node in provider mode: StartProvider and StopProvider called
\* one after the other while the registry makes progress of its own.
SpecProvider == Init /\ [][ProvNext]_vars

\* ------------------------------------------------------------------ claims
\* An instance whose proposal has provider p and service type t is listed.
Listed(p, t) ==
    \E i \in IDs : /\ instances[i] # NoInstance
                   /\ instances[i].ProviderID = p
                   /\ instances[i].ServiceType = t

\* The body decodes and its options payload, if there is one, parses.
Parses(req) ==
    /\ req.body = "json"
    /\ \/ req.options = "absent"
       \/ req.options = "valid" /\ req.serviceType \in optionsParser

\* Handler h takes up a Start request in this step: it was between requests
\* and now holds a ServiceStart that has not called the registry.
StartBegins(h) ==
    /\ task[h].pc \in {"idle", "done"}
    /\ task'[h] # task[h]
    /\ task'[h].op = "ServiceStart"

\* Handler h takes up a Stop request in this step.
StopBegins(h) ==
    /\ task[h].pc \in {"idle", "done"}
    /\ task'[h] # task[h]
    /\ task'[h].op = "ServiceStop"

\* C1 as stated: a Start request for provider P and type T is answered 409
\* whenever an instance with provider P and type T is listed.
C1_ConflictWheneverListed ==
    [][\A h \in Handlers :
        ( /\ StartBegins(h)
          /\ task'[h].req.body = "json"
          /\ task'[h].req.providerId # "" /\ task'[h].req.serviceType # ""
          /\ Listed(task'[h].req.providerId, task'[h].req.serviceType) )
        => task'[h].status = 409]_vars

\* C1 amended: a Start request for provider P and type T whose body decodes
\* and whose options (if any) parse is answered 409, without a call of the
\* registry's Start, whenever an instance with provider P and type T is
\* listed, whatever that instance's state and whatever else is listed.
C1_ConflictWhenParsed ==
    [][\A h \in Handlers :
        ( /\ StartBegins(h)
          /\ Parses(task'[h].req)
          /\ task'[h].req.providerId # "" /\ task'[h].req.serviceType # ""
          /\ Listed(task'[h].req.providerId, task'[h].req.serviceType) )
        => /\ task'[h].status = 409
           /\ task'[h].pc = "done"
           /\ task'[h].nStart = 0]_vars

\* A Start was answered 409 while the instance with its provider and type is
\* listed but not yet running, beside an instance of another provider.
C1_Witness ==
    \E h \in Handlers, i \in IDs, j \in IDs :
        /\ task[h].op = "ServiceStart" /\ task[h].status = 409
        /\ instances[i].ProviderID = task[h].req.providerId
        /\ instances[i].ServiceType = task[h].req.serviceType
        /\ instances[i].State = "Starting"
        /\ instances[j] # NoInstance
        /\ instances[j].ProviderID # task[h].req.providerId

\* The fields among providerId and serviceType that a request leaves empty.
Missing(req) ==
    {f \in {"providerId", "serviceType"} :
        \/ f = "providerId" /\ req.providerId = ""
        \/ f = "serviceType" /\ req.serviceType = ""}

\* C2: every Start request with an empty providerId or serviceType, with or
\* without options, is answered 422 with exactly the missing fields.
C2_ValidationError ==
    [][\A h \in Handlers :
        ( /\ StartBegins(h)
          /\ task'[h].req.body = "json"
          /\ Missing(task'[h].req) # {} )
        => /\ task'[h].status = 422
           /\ task'[h].fields = Missing(task'[h].req)]_vars

\* C3: ServiceStop(id) answers 404 without calling the registry's Stop when
\* no instance exists for id; otherwise it calls Stop exactly once and answers
\* 202 when the call succeeds and 500 when it fails.
C3_ServiceStop ==
    [][\A h \in Handlers :
        /\ StopBegins(h) =>
                IF task'[h].id \notin IDs \/ instances[task'[h].id] = NoInstance
                THEN /\ task'[h].pc = "done"
                     /\ task'[h].status = 404
                     /\ task'[h].nStop = 0
                     /\ instances' = instances
                ELSE /\ task'[h].pc = "stop"
                     /\ task'[h].nStop = 0
        /\ (task[h].op = "ServiceStop" /\ task[h].pc = "stop" /\ task'[h] # task[h])
             => /\ task'[h].pc = "done"
                /\ task'[h].nStop = 1
                /\ task'[h].status = IF task'[h].err = "nil" THEN 202 ELSE 500
                /\ task'[h].err # "nil" => instances' = instances]_vars

\* A Stop was answered 202 while the instance is still listed: its teardown
\* has not completed.
C3_Witness ==
    \E h \in Handlers :
        /\ task[h].op = "ServiceStop" /\ task[h].status = 202
        /\ task[h].nStop = 1
        /\ instances[task[h].id] # NoInstance
        /\ instances[task[h].id].State = "NotRunning"

\* A sessionCreated call occurs in l with no Disconnecting event after it.
CreatedSinceDisconnecting(l) ==
    \E i \in 1..Len(l) :
        /\ l[i] = "sessionCreated"
        /\ \A j \in (i + 1)..Len(l) : l[j] # "Disconnecting"

\* The session the latest sessionCreated call of l registered.
LatestCreated(l) == Cardinality({i \in 1..Len(l) : l[i] = "sessionCreated"})

\* C4: after any sequence of calls, Reconnect returns the no-active-session
\* error iff no sessionCreated call occurred since the last Disconnecting
\* event; otherwise it returns the result of the held session's Reconnect.
C4_Reconnect ==
    (log # <<>> /\ Last(log) \in {"Reconnect:ok", "Reconnect:engineError"}) =>
        LET before == SubSeq(log, 1, Len(log) - 1) IN
        /\ reconnect.result = "noSession" <=> ~CreatedSinceDisconnecting(before)
        /\ CreatedSinceDisconnecting(before) =>
             /\ reconnect.result =
                   (IF Last(log) = "Reconnect:ok" THEN "ok" ELSE "engineError")
             /\ reconnect.target = LatestCreated(before)

\* Reconnect was forwarded to a session created after a Disconnecting event,
\* with a NotConnected event in between, and the engine's error came back.
C4_Witness ==
    /\ Len(log) = 5
    /\ log[2] = "Disconnecting" /\ log[3] = "sessionCreated"
    /\ log[4] = "NotConnected" /\ log[5] = "Reconnect:engineError"
    /\ reconnect.result = "engineError" /\ reconnect.target = 2

\* The number of entries of q that equal x.
Count(q, x) == Cardinality({i \in 1..Len(q) : q[i] = x})

\* C5: for any sequence of engine events, the adapter sends at most one
\* NotConnected on the state channel, closes it at most once, and sends
\* nothing on it after closing it.
C5_StateChannel ==
    \A s \in Sessions :
        /\ Count(chanLog[s], "NotConnected") <= 1
        /\ Count(chanLog[s], "close") <= 1
        /\ \A i \in 1..Len(chanLog[s]) :
              chanLog[s][i] = "close" => i = Len(chanLog[s])

\* C6: every read and write of the tracker's handle happens with the
\* tracker's mutex held by the task that reads or writes.
C6_MutexHeld ==
    /\ factory.pc = "locked" => mux = "factory"
    /\ reconnect.pc \in {"check", "use"} => mux = "reconnect"
    /\ (bus.pc = "handle" /\ bus.state = "Disconnecting") => mux = "bus"

C9_HandleState ==
    [][(Len(log') = Len(log) + 1 /\ Last(log') \in States) =>
          session' = IF Last(log') = "Disconnecting" THEN NoSession ELSE session]_vars

\* The handle is empty right after a Disconnecting event that followed a
\* sessionCreated call and a Connected event that left the handle alone.
C9_Witness ==
    /\ Len(log) = 3
    /\ log[1] = "sessionCreated" /\ log[2] = "Connected"
    /\ log[3] = "Disconnecting"
    /\ session = NoSession

\* C10: once the tracker has observed a session's NotConnected event, it no
\* longer holds that session's handle.
C10_ClearedOnNotConnected ==
    \A s \in ended : session # s

\* C11: whenever ServiceStart rejects a request at the endpoint (400 for a
\* body that does not decode, an unknown service type or unparsable options;
\* 422 for a missing field; 409 for a duplicate), the handler is done without
\* a call of the registry's Start and the registry's instances are unchanged.
C11_RejectedLeavesRegistry ==
    [][\A h \in Handlers :
        ( /\ StartBegins(h)
          /\ \/ ~Parses(task'[h].req)
             \/ Missing(task'[h].req) # {}
             \/ Listed(task'[h].req.providerId, task'[h].req.serviceType) )
        => /\ task'[h].pc = "done"
           /\ task'[h].status \in {400, 422, 409}
           /\ task'[h].nStart = 0
           /\ instances' = instances
           /\ nextId' = nextId]_vars

\* A request with unparsable options was answered 400 without a call of
\* Start while the registry holds an instance.
C11_Witness ==
    \E h \in Handlers :
        /\ task[h].op = "ServiceStart" /\ task[h].pc = "done"
        /\ task[h].req.options = "invalid"
        /\ task[h].status = 400 /\ task[h].nStart = 0
        /\ List(instances) # {}

\* C12: a valid, non-duplicate Start request that reaches the registry is
\* answered 400 when Start returns the location error, 500 when it returns
\* any other error, and 201 with the new instance's id and info when it
\* succeeds; no registry error is answered as a success.
C12_StartOutcome ==
    [][\A h \in Handlers :
        /\ (task[h].op = "ServiceStart" /\ task[h].pc = "start"
                /\ task'[h] # task[h]) =>
              /\ task'[h].nStart = 1
              /\ task'[h].err = "ErrorLocation" =>
                    task'[h].pc = "done" /\ task'[h].status = 400
              /\ task'[h].err \notin {"nil", "ErrorLocation"} =>
                    task'[h].pc = "done" /\ task'[h].status = 500
              /\ task'[h].err = "nil" =>
                    /\ task'[h].pc = "lookup"
                    /\ instances'[task'[h].id] # NoInstance
                    /\ instances[task'[h].id] = NoInstance
        /\ (task[h].op = "ServiceStart" /\ task[h].pc = "lookup"
                /\ task'[h] # task[h]) =>
              /\ task'[h].pc = "done"
              /\ task'[h].status = 201
              /\ task'[h].err = "nil"
              /\ instances[task'[h].id] # NoInstance
              /\ task'[h].info = instances[task'[h].id].State]_vars

\* C13: the duplicate check gives concurrent Start requests no exclusion: a
\* valid request for provider P and type T goes on to the registry's Start,
\* and is not answered 409, whenever no instance with P and T is listed at
\* its check, also while another request for P and T is past its own check
\* and has not registered its instance yet.
C13_BothPassCheck ==
    [][\A h \in Handlers :
        ( /\ StartBegins(h)
          /\ Parses(task'[h].req)
          /\ Missing(task'[h].req) = {}
          /\ ~Listed(task'[h].req.providerId, task'[h].req.serviceType) )
        => /\ task'[h].pc = "start"
           /\ task'[h].status # 409]_vars

\* Two concurrent Start requests for the same provider and type both called
\* the registry's Start and both were answered 201: two instances with that
\* provider and type are listed.
C13_Witness ==
    \E h \in Handlers : \E g \in Handlers \ {h} :
        /\ task[h].op = "ServiceStart" /\ task[g].op = "ServiceStart"
        /\ task[h].req = task[g].req
        /\ task[h].nStart = 1 /\ task[g].nStart = 1
        /\ task[h].status = 201 /\ task[g].status = 201
        /\ task[h].id # task[g].id
        /\ instances[task[h].id] # NoInstance
        /\ instances[task[g].id] # NoInstance

\* p is an initial part of q.
IsPrefix(p, q) ==
    /\ Len(p) <= Len(q)
    /\ \A k \in 1..Len(p) : p[k] = q[k]

\* The service types of the Start calls in l, in the order of the calls.
TypesOf(l) == [k \in 1..Len(l) |-> l[k].serviceType]

\* A service with provider p and type t is listed in the mobile node's
\* registry.
ProviderListed(p, t) ==
    \E i \in ServiceIDs : /\ services[i] # NoInstance
                          /\ services[i].ProviderID = p
                          /\ services[i].ServiceType = t

\* What C14 says of a step of StartProvider's loop, its route to the registry
\* aside: Start is called for the fixed types in the order wireguard,
\* scraping, data_transfer; every call but the last made has succeeded; a
\* failure ends the call of StartProvider with the registry as it was, so
\* that no remaining type is started and the services started stay; and the
\* call returns with nothing raised.
C14_OrderAndAbort ==
    /\ (prov.op = "StartProvider" /\ prov.pc = "loop" /\ prov' # prov) =>
          /\ prov'.op = "StartProvider"
          /\ Len(prov'.starts) <= Len(prov.starts) + 1
          /\ IsPrefix(prov.starts, prov'.starts)
          /\ IsPrefix(TypesOf(prov'.starts),
                      <<"wireguard", "scraping", "data_transfer">>)
          /\ \A k \in 1..(Len(prov'.starts) - 1) : prov'.starts[k].ok
          /\ IF prov'.starts # prov.starts /\ Last(prov'.starts).ok
             THEN /\ services'[nextService] =
                        [ProviderID |-> prov.providerID,
                         ServiceType |-> Last(prov'.starts).serviceType,
                         State |-> "Starting"]
                  /\ \A i \in ServiceIDs \ {nextService} : services'[i] = services[i]
                  /\ prov'.pc = IF Len(prov'.starts) = 3 THEN "returned" ELSE "loop"
             ELSE /\ prov'.pc = "returned"
                  /\ prov'.outcome \in {"GetStartOptions failed",
                                        "servicesManager.Start failed"}
                  /\ services' = services
    /\ (prov.op = "StartProvider" /\ prov.pc = "returned" /\ prov' # prov) =>
          /\ prov'.starts = <<>>
          /\ services' = services

\* C14 as stated: StartProvider starts the fixed types in order, stops at the
\* first failure and leaves what it started, and every Start it makes has
\* passed the endpoint's duplicate check (no service with its provider and
\* type is listed when the registry's Start is called).
C14_ThroughEndpoint ==
    [][/\ C14_OrderAndAbort
       /\ (prov.op = "StartProvider" /\ prov'.starts # prov.starts
              /\ prov'.starts # <<>>) =>
             ~ProviderListed(prov.providerID, Last(prov'.starts).serviceType)]_vars

\* C15: StopProvider ranges over every listed service; it calls the
\* registry's Stop for a service iff the service is Running when the loop is
\* at it; at the first Stop that fails it returns, with nothing raised and
\* the registry as it was, so that it stops no further service.
C15_StopProvider ==
    [][/\ (prov.pc \in {"idle", "returned"} /\ prov' # prov
              /\ prov'.op = "StopProvider") =>
             /\ {prov'.todo[k] : k \in 1..Len(prov'.todo)} = List(services)
             /\ Len(prov'.todo) = Cardinality(List(services))
             /\ prov'.stops = <<>>
             /\ services' = services
       /\ (prov.op = "StopProvider" /\ prov.pc = "loop" /\ prov' # prov) =>
             /\ prov'.op = "StopProvider"
             /\ IF /\ services[Head(prov.todo)] # NoInstance
                   /\ services[Head(prov.todo)].State = "Running"
                THEN /\ Len(prov'.stops) = Len(prov.stops) + 1
                     /\ IsPrefix(prov.stops, prov'.stops)
                     /\ Last(prov'.stops).id = Head(prov.todo)
                     /\ IF Last(prov'.stops).ok
                        THEN /\ prov'.todo = Tail(prov.todo)
                             /\ \A i \in ServiceIDs \ {Head(prov.todo)} :
                                   services'[i] = services[i]
                             /\ services'[Head(prov.todo)].State # "Running"
                        ELSE /\ prov'.pc = "returned"
                             /\ prov'.outcome = "servicesManager.Stop failed"
                             /\ services' = services
                ELSE /\ prov'.stops = prov.stops
                     /\ prov'.todo = Tail(prov.todo)
                     /\ services' = services
             /\ prov'.pc = "returned" <=>
                   (prov'.todo = <<>> \/ prov'.outcome = "servicesManager.Stop failed")]_vars

\* StopProvider stopped one running service, failed to stop the next and
\* returned: a running service it had not reached yet is still running.
C15_Witness ==
    /\ prov.op = "StopProvider" /\ prov.pc = "returned"
    /\ prov.outcome = "servicesManager.Stop failed"
    /\ Len(prov.stops) = 2 /\ prov.stops[1].ok /\ ~prov.stops[2].ok
    /\ \E k \in 2..Len(prov.todo) :
          /\ services[prov.todo[k]] # NoInstance
          /\ services[prov.todo[k]].State = "Running"

\* What the spec makes of an event name on the state channel.
Image(name) ==
    IF name = "CONNECTING" THEN <<"Connecting">>
    ELSE IF name = "CONNECTED" THEN <<"Connected">>
    ELSE IF name = "DISCONNECTED" THEN <<"NotConnected", "close">>
    ELSE <<>>

\* The images of the events of evs, one after the other.
RECURSIVE Images(_)
Images(evs) == IF evs = <<>> THEN <<>> ELSE Image(Head(evs)) \o Images(Tail(evs))

\* q up to and including its first x; all of q when x is not in it.
UpTo(q, x) ==
    IF \E i \in 1..Len(q) : q[i] = x
    THEN SubSeq(q, 1, CHOOSE i \in 1..Len(q) :
                        q[i] = x /\ \A j \in 1..(i - 1) : q[j] # x)
    ELSE q

\* p is a final part of q.
IsSuffix(p, q) ==
    /\ Len(p) <= Len(q)
    /\ \A k \in 1..Len(p) : p[k] = q[Len(q) - Len(p) + k]

\* C16: for each session, what the adapter has put on the state channel up
\* to its close is exactly the images of the engine's events up to the
\* session's DISCONNECTED, in the order of the events (CONNECTING gives
\* Connecting, CONNECTED gives Connected, DISCONNECTED gives NotConnected and
\* then the close, any other name gives nothing), and the values waiting in
\* the channel are the last of them.
C16_ImagesInOrder ==
    \A s \in Sessions :
        /\ UpTo(chanLog[s], "close") = Images(UpTo(events[s], "DISCONNECTED"))
        /\ IsSuffix(stateChannel[s],
                    SelectSeq(UpTo(chanLog[s], "close"), LAMBDA x : x # "close"))

\* A session's engine emitted CONNECTED, an event the adapter does not
\* handle, and DISCONNECTED: the channel got Connected, NotConnected and the
\* close.
C16_Witness ==
    \E s \in Sessions :
        /\ events[s] = <<"CONNECTED", "RECONNECTING", "DISCONNECTED">>
        /\ chanLog[s] = <<"Connected", "NotConnected", "close">>
        /\ closed[s]

\* C17: for any stream of engine events, every OnEvent call returns: none
\* panics on a send to, or a close of, the closed state channel.
C17_OnEventReturns ==
    panic \notin {"send on closed channel", "close of closed channel"}

\* C18: the connection factory returns the connection handle only after
\* sessionCreated has stored the newly constructed session in the tracker;
\* when configuration derivation or credential signing fails it returns the
\* error with no session constructed and the tracker's handle as it was.
C18_FactoryRegisters ==
    [][/\ (factory'.result = "ok" /\ factory' # factory) =>
             /\ factory.pc = "written"
             /\ factory'.s = factory.s
       /\ (factory'.pc = "written" /\ factory.pc # "written") =>
             /\ factory'.s # NoSession
             /\ factory'.s = created
             /\ session' = factory'.s
       /\ (factory'.result \in {"ConfigurationError", "CredentialError"}
              /\ factory' # factory) =>
             /\ factory.pc = "idle"
             /\ factory'.s = NoSession
             /\ created' = created
             /\ session' = session]_vars

\* The factory failed on the credentials while the tracker holds the session
\* an earlier call of the factory registered: the handle is still that
\* session.
C18_Witness ==
    /\ factory.pc = "idle" /\ factory.result = "CredentialError"
    /\ created >= 1
    /\ session = created

\* C19: under every interleaving of Reconnect with handleState, Reconnect
\* returns the no-active-session error or calls the native Reconnect on a
\* session: it never calls through a handle cleared since its nil check.
C19_ReconnectOnSession ==
    /\ panic # "nil session"
    /\ reconnect.result \in {"ok", "engineError"} => reconnect.target # NoSession

\* C20: a Disconnecting event of an earlier session, handled while the
\* tracker holds a session created later, leaves that handle in place.
C20_StaleDisconnecting ==
    [][( /\ bus.pc = "handle" /\ bus'.pc = "idle"
         /\ bus.state = "Disconnecting"
         /\ session # NoSession
         /\ bus.s < session )
        => session' = session]_vars

\* C21: once the registry's Start has succeeded, ServiceStart answers 201
\* with the info of the started instance, also when a concurrent Stop has
\* removed the instance before the handler looks it up: the handler never
\* builds its response from a missing instance.
C21_InfoOfStartedInstance ==
    \A h \in Handlers :
        (task[h].op = "ServiceStart" /\ task[h].nStart = 1
            /\ task[h].err = "nil" /\ task[h].pc = "done") =>
          /\ task[h].status = 201
          /\ task[h].info \in {"Starting", "Running", "NotRunning"}
====
